---- MODULE Spec2Model ----
(***************************************************************************)
(* Model of the TEC operation of LoSiTo (losito/operations/tec.py):        *)
(* _run_parser, run (methods 'fits' and 'wave'), the worker-pool maps of   *)
(* the wave method, the h5parm written at h5parmFilename and the parset    *)
(* parameters of the observation.                                          *)
(*                                                                         *)
(* Indices are 0-based as in the source.  Fractional pixel coordinates     *)
(* are held in quarter pixels (the integer q stands for q/4).  Floats 1.0  *)
(* and 0.0 of the arrays are the integers 1 and 0; cube values are >= 2.   *)
(***************************************************************************)
EXTENDS Integers, Sequences, FiniteSets, TLC

VARIABLES pc, calls, cfg, method, h5parmFilename, fitsFilename,
          ras, decs, nstations, d, pixels, vals, weights,
          todo, res, order, taskerr, altazcoord, alltec,
          fs, parset, ret, pre, nsucc, steps0

vars == <<pc, calls, cfg, method, h5parmFilename, fitsFilename,
          ras, decs, nstations, d, pixels, vals, weights,
          todo, res, order, taskerr, altazcoord, alltec,
          fs, parset, ret, pre, nsucc, steps0>>

(* ------------------------------ bounds -------------------------------- *)
NTimes == 2
NFreqs == 2
NStations == 2
NX == 2
NY == 2
NDirs == 2
MaxCalls == 2

(* --------------------------- the environment --------------------------- *)
Methods == {"fits", "wave", "tid"}
Paths == {"out.h5"}
CubeFiles == {"cube.fits", "cube2.fits"}
NoFile == "None"

\* obs.stations / obs.stationpos : names and positions of the observation
ObsStations == [s \in 0..(NStations - 1) |-> <<"ST", s>>]
ObsStationPos == [s \in 0..(NStations - 1) |-> <<"pos", s>>]
\* obs.get_patch_names()
SourceNames == [i \in 0..(NDirs - 1) |-> <<"patch", i>>]

\* Sky coordinates of a patch, given by the fractional pixel they project to
\* (quarter pixels): (0.5, 1), (-0.75, 0), (-1.25, ny + 1), (nx, 0), (0, ny).
SkyCoords ==
    { <<2, 4>>, <<-3, 0>>, <<-5, 4 * NY + 4>>, <<4 * NX, 0>>, <<0, 4 * NY>> }

\* hdu[0].data[t, f, s, y, x] of the cube in file c : every entry of every
\* cube is a different number
Data(c, t, f, s, y, x) ==
    2 + x + 10 * y + 100 * s + 1000 * f + 10000 * t
      + (IF c = "cube.fits" THEN 0 ELSE 100000)

\* hdu[0].header : linear axis descriptors
Header == [CRVAL4 |-> 100, CDELT4 |-> 10, CRVAL3 |-> 50, CDELT3 |-> 5]

\* w.wcs_world2pix(ra_dec, 0)[0][0..1] : fractional pixel of a direction
wcs_world2pix(ra, dec) == <<ra, dec>>

\* int(.) of a float held in quarter units: truncation toward zero
IntOf(q) == IF q >= 0 THEN q \div 4 ELSE -((-q) \div 4)

\* the integer nearest to a float held in quarter units
Nearest(q) == (q + 2) \div 4

Idx == (0..(NTimes - 1)) \X (0..(NStations - 1)) \X (0..(NDirs - 1)) \X (0..(NFreqs - 1))

NoArr == <<>>
NoH5 == [exists |-> FALSE, solsets |-> <<>>]

(* ------------------------------ parset --------------------------------- *)
HasKey(p, k) == k \in DOMAIN p
SetKey(p, k, v) == [x \in (DOMAIN p) \cup {k} |-> IF x = k THEN v ELSE p[x]]

\* tec.py 166-170 : append 'tec' to the steps list, or create it
AddTecStep_replace(p) == SetKey(p, "predict.applycal.steps", <<"tec">>)
AddTecStep(p) ==
    IF HasKey(p, "predict.applycal.steps")
    THEN SetKey(p, "predict.applycal.steps", Append(p["predict.applycal.steps"], "tec"))
    ELSE SetKey(p, "predict.applycal.steps", <<"tec">>)

(* ------------------------------- Init ---------------------------------- *)
NoCfg == [via |-> FALSE, method |-> "", fitsFilename |-> "", h5parmFilename |-> ""]

Init ==
    /\ pc = "idle"
    /\ calls = 0
    /\ cfg = NoCfg
    /\ method = "" /\ h5parmFilename = "" /\ fitsFilename = ""
    /\ \E c \in [1..NDirs -> SkyCoords] :
          /\ ras = [i \in 0..(NDirs - 1) |-> c[i + 1][1]]
          /\ decs = [i \in 0..(NDirs - 1) |-> c[i + 1][2]]
    /\ nstations = 0
    /\ d = 0
    /\ pixels = <<>>
    /\ vals = NoArr /\ weights = NoArr
    /\ todo = {} /\ res = <<>> /\ order = <<>> /\ taskerr = FALSE
    /\ altazcoord = <<>> /\ alltec = <<>>
    /\ fs = [p \in Paths |-> NoH5]
    /\ parset \in { [k \in {"steps"} |-> <<>>],
                    [k \in {"steps", "predict.applycal.steps"} |-> IF k = "steps" THEN <<>> ELSE <<"beam">>] }
    /\ ret = "none"
    /\ pre = [fs |-> fs, parset |-> parset]
    /\ nsucc = 0
    /\ steps0 = HasKey(parset, "predict.applycal.steps")

PerCallReset ==
    /\ d' = 0 /\ pixels' = <<>> /\ vals' = NoArr /\ weights' = NoArr
    /\ todo' = {} /\ res' = <<>> /\ order' = <<>> /\ taskerr' = FALSE
    /\ altazcoord' = <<>> /\ alltec' = <<>>
    /\ ret' = "none"

(* ---------------------------- entry points ----------------------------- *)
\* run(obs, method, h5parmFilename, fitsFilename=None) called directly
CallRun ==
    /\ pc = "idle" /\ calls < MaxCalls
    /\ calls' = calls + 1
    /\ cfg' = NoCfg
    /\ method' \in Methods
    /\ h5parmFilename' \in Paths
    /\ fitsFilename' \in (IF method' = "fits" THEN CubeFiles ELSE {}) \cup {NoFile}
    /\ PerCallReset
    /\ pre' = [fs |-> fs, parset |-> parset]
    /\ pc' = "run"
    /\ UNCHANGED <<ras, decs, nstations, fs, parset, nsucc, steps0>>

\* fitsFilename + '.h5parm' : default of the option h5parmFilename
DefaultH5(f) == <<f, ".h5parm">>

\* _run_parser(obs, parser, step): reads method, fitsFilename, h5parmFilename
\* and calls run(obs, fitsFilename, h5parmFilename)
CallRunParser ==
    /\ pc = "idle" /\ calls < MaxCalls
    /\ calls' = calls + 1
    /\ \E m \in Methods, f \in {"cube.fits", ""}, h \in Paths \cup {"unset"} :
          LET hh == IF h = "unset" THEN DefaultH5(f) ELSE h IN
          /\ cfg' = [via |-> TRUE, method |-> m, fitsFilename |-> f, h5parmFilename |-> hh]
          /\ method' = f
          /\ h5parmFilename' = hh
          /\ fitsFilename' = NoFile
    /\ PerCallReset
    /\ pre' = [fs |-> fs, parset |-> parset]
    /\ pc' = "run"
    /\ UNCHANGED <<ras, decs, nstations, fs, parset, nsucc, steps0>>

(* ------------------------------ run: fits ------------------------------ *)
\* tec.py 86 : the station check
StationsDiffer_never(n) == FALSE
StationsDiffer(n) == n # NStations

\* tec.py 77-92 : open the cube, check the stations, allocate vals/weights
FitsLoad ==
    /\ pc = "run" /\ method = "fits"
    /\ IF fitsFilename \notin CubeFiles
       THEN /\ ret' = "OSError" /\ pc' = "done"
            /\ UNCHANGED <<nstations, vals, weights>>
       ELSE \E n \in {NStations, NStations + 1} :
            /\ nstations' = n
            /\ IF StationsDiffer(n)
               THEN /\ ret' = "1" /\ pc' = "done"
                    /\ UNCHANGED <<vals, weights>>
               ELSE /\ vals' = [i \in Idx |-> 0]
                    /\ weights' = [i \in Idx |-> 1]
                    /\ pc' = "loop"
                    /\ UNCHANGED ret
    /\ UNCHANGED <<calls, cfg, method, h5parmFilename, fitsFilename, ras, decs,
                   d, pixels, todo, res, order, taskerr,
                   altazcoord, alltec, fs, parset, pre, nsucc, steps0>>

\* tec.py 97 : the test that flags a direction
Flagged(x, y) == x < 0 \/ x > NX \/ y < 0 \/ y > NY

\* tec.py 104 : the cube entry copied to vals[t, s, d, f]
Lookup_swapped(c, t, f, s, y, x) == Data(c, f, t, s, y, x)
Lookup(c, t, f, s, y, x) == Data(c, t, f, s, y, x)

\* an index the cube has on its two spatial axes
InCube(x, y) == x >= 0 /\ x < NX /\ y >= 0 /\ y < NY

\* tec.py 93-104 : one pass of the loop over the directions
FitsDirection ==
    /\ pc = "loop" /\ d < NDirs
    /\ LET fp == wcs_world2pix(ras[d], decs[d])
           x == IntOf(fp[1])
           y == IntOf(fp[2])
       IN /\ pixels' = Append(pixels, <<x, y>>)
          /\ IF Flagged(x, y)
             THEN /\ vals' = [i \in Idx |-> IF i[3] = d THEN 1 ELSE vals[i]]
                  /\ weights' = [i \in Idx |-> IF i[3] = d THEN 0 ELSE weights[i]]
                  /\ d' = d + 1
                  /\ UNCHANGED <<pc, ret>>
             ELSE IF ~InCube(x, y)
             THEN \* data[t, f, s, y, x] raises IndexError at the first entry
                  /\ ret' = "IndexError" /\ pc' = "done"
                  /\ UNCHANGED <<vals, weights, d>>
             ELSE /\ vals' = [i \in Idx |->
                                IF i[3] = d
                                THEN Lookup(fitsFilename, i[1], i[4], i[2], y, x) ELSE vals[i]]
                  /\ d' = d + 1
                  /\ UNCHANGED <<weights, pc, ret>>
    /\ UNCHANGED <<calls, cfg, method, h5parmFilename, fitsFilename, ras, decs,
                   nstations, todo, res, order, taskerr,
                   altazcoord, alltec, fs, parset, pre, nsucc, steps0>>

\* tec.py 107-113 : the axis arrays
Axis(ref, del, n) == [i \in 0..(n - 1) |-> ref + del * i]

\* tec.py 116-117 : an existing file is removed before the h5parm is opened
RemoveOld_skip(f) == f
RemoveOld(f) == IF f.exists THEN NoH5 ELSE f

\* h5parm(h5parmFilename, readonly=False) : opens the file, creating it if absent
OpenH5(f) == [exists |-> TRUE, solsets |-> f.solsets]

\* tec.py 119-134 : makeSolset, makeSoltab, antenna and source rows, history
NewSolset(f, path, fits, v, w, rs, ds) ==
    [ name |-> <<"sol", Len(f.solsets)>>,
      soltabs |-> << [ name |-> "tec000", type |-> "tec",
                       axesNames |-> <<"time", "ant", "dir", "freq">>,
                       times |-> Axis(Header.CRVAL4, Header.CDELT4, NTimes),
                       ants |-> ObsStations,
                       dirs |-> SourceNames,
                       freqs |-> Axis(Header.CRVAL3, Header.CDELT3, NFreqs),
                       vals |-> v, weights |-> w,
                       history |-> << <<"CREATE", path, fits>> >> ] >>,
      antenna |-> [s \in 0..(NStations - 1) |-> <<ObsStations[s], ObsStationPos[s]>>],
      source |-> [i \in 0..(NDirs - 1) |-> <<SourceNames[i], <<rs[i], ds[i]>>>>] ]

WriteH5(f, path, fits, v, w, rs, ds) ==
    LET o == OpenH5(RemoveOld(f))
    IN [exists |-> TRUE,
        solsets |-> Append(o.solsets, NewSolset(o, path, fits, v, w, rs, ds))]

\* tec.py 106-134 : fill the axes and write the h5parm
FitsWrite ==
    /\ pc = "loop" /\ d = NDirs
    /\ fs' = [fs EXCEPT ![h5parmFilename] =
                 WriteH5(@, h5parmFilename, fitsFilename, vals, weights, ras, decs)]
    /\ pc' = "parset"
    /\ UNCHANGED <<calls, cfg, method, h5parmFilename, fitsFilename, ras, decs,
                   nstations, d, pixels, vals, weights, todo, res, order, taskerr,
                   altazcoord, alltec, parset, ret, pre, nsucc, steps0>>

(* ------------------------------ run: wave ------------------------------ *)
\* _getaltaz(radec), _gettec(altaz) : the pure per-direction functions
_getaltaz(radec) == <<"altaz", radec>>
_gettec(altaz) == <<"tec", altaz>>

AllTasks == 0..(NDirs - 1)

\* tec.py 138-155 : times, the frame, and the first pool with its tasks submitted
WaveStart ==
    /\ pc = "run" /\ method = "wave"
    /\ todo' = AllTasks
    /\ res' = [i \in AllTasks |-> <<"none">>]
    /\ order' = <<>>
    /\ taskerr' = FALSE
    /\ pc' = "map1"
    /\ UNCHANGED <<calls, cfg, method, h5parmFilename, fitsFilename, ras, decs,
                   nstations, d, pixels, vals, weights, altazcoord, alltec,
                   fs, parset, ret, pre, nsucc, steps0>>

\* the input list of the map in progress
MapInput(i) ==
    IF pc = "map1" THEN <<ras[i], decs[i]>> ELSE altazcoord[i]
MapFunc(a) ==
    IF pc = "map1" THEN _getaltaz(a) ELSE _gettec(a)

\* a worker finishes task i, with a result or with an exception; a result is
\* stored at the task's index unless a task has failed, and the first
\* exception replaces the results
TaskDone ==
    /\ pc \in {"map1", "map2"}
    /\ \E i \in todo, ok \in BOOLEAN :
          /\ todo' = todo \ {i}
          /\ order' = Append(order, i)
          /\ IF ok /\ ~taskerr
             THEN res' = [res EXCEPT ![i] = MapFunc(MapInput(i))] /\ UNCHANGED taskerr
             ELSE IF ~ok
             THEN taskerr' = TRUE /\ res' = [j \in AllTasks |-> <<"none">>]
             ELSE UNCHANGED <<res, taskerr>>
    /\ UNCHANGED <<pc, calls, cfg, method, h5parmFilename, fitsFilename, ras, decs,
                   nstations, d, pixels, vals, weights, altazcoord, alltec,
                   fs, parset, ret, pre, nsucc, steps0>>

\* Pool.map : the list of results handed back to the caller
Collect_completion(r, o) == [i \in AllTasks |-> r[o[i + 1]]]
Collect(r, o) == [i \in AllTasks |-> r[i]]

\* tec.py 156-158 : p.map(_getaltaz, radec) returns; the second pool is started
Map1Return ==
    /\ pc = "map1" /\ todo = {}
    /\ IF taskerr
       THEN /\ ret' = "TaskError" /\ pc' = "done"
            /\ UNCHANGED <<altazcoord, todo, res, order>>
       ELSE /\ altazcoord' = Collect(res, order)
            /\ todo' = AllTasks
            /\ res' = [i \in AllTasks |-> <<"none">>]
            /\ order' = <<>>
            /\ pc' = "map2"
            /\ UNCHANGED ret
    /\ UNCHANGED <<calls, cfg, method, h5parmFilename, fitsFilename, ras, decs,
                   nstations, d, pixels, vals, weights, taskerr, alltec,
                   fs, parset, pre, nsucc, steps0>>

\* tec.py 159-161 : p.map(_gettec, altazcoord) returns, np.array, then 0/0
Map2Return ==
    /\ pc = "map2" /\ todo = {}
    /\ IF taskerr
       THEN /\ ret' = "TaskError"
            /\ UNCHANGED alltec
       ELSE /\ alltec' = Collect(res, order)
            /\ ret' = "ZeroDivisionError"
    /\ pc' = "done"
    /\ UNCHANGED <<calls, cfg, method, h5parmFilename, fitsFilename, ras, decs,
                   nstations, d, pixels, vals, weights, todo, res, order, taskerr,
                   altazcoord, fs, parset, pre, nsucc, steps0>>

(* --------------------------- run: the parset --------------------------- *)
\* tec.py 77, 136 : a method that is neither 'fits' nor 'wave' takes no branch
NoBranch ==
    /\ pc = "run" /\ method \notin {"fits", "wave"}
    /\ pc' = "parset"
    /\ UNCHANGED <<calls, cfg, method, h5parmFilename, fitsFilename, ras, decs,
                   nstations, d, pixels, vals, weights, todo, res, order, taskerr,
                   altazcoord, alltec, fs, parset, ret, pre, nsucc, steps0>>

\* tec.py 165-174 : update the predict parset parameters and return 0
UpdateParset ==
    /\ pc = "parset"
    /\ parset' = SetKey(SetKey(AddTecStep(SetKey(parset,
                     "predict.applycal.parmdb", h5parmFilename)),
                     "predict.applycal.correction", "tec000"),
                     "predict.applycal.tec.correction", "tec000")
    /\ ret' = "0"
    /\ nsucc' = nsucc + 1
    /\ pc' = "done"
    /\ UNCHANGED <<calls, cfg, method, h5parmFilename, fitsFilename, ras, decs,
                   nstations, d, pixels, vals, weights, todo, res, order, taskerr,
                   altazcoord, alltec, fs, pre, steps0>>

\* the caller has the result; the operation can be started again
Return ==
    /\ pc = "done"
    /\ pc' = "idle"
    /\ cfg' = NoCfg
    /\ method' = "" /\ h5parmFilename' = "" /\ fitsFilename' = ""
    /\ nstations' = 0
    /\ PerCallReset
    /\ pre' = [fs |-> fs, parset |-> parset]
    /\ UNCHANGED <<calls, ras, decs, fs, parset, nsucc, steps0>>

Next ==
    \/ CallRun
    \/ CallRunParser
    \/ FitsLoad
    \/ FitsDirection
    \/ FitsWrite
    \/ WaveStart
    \/ TaskDone
    \/ Map1Return
    \/ Map2Return
    \/ NoBranch
    \/ UpdateParset
    \/ Return

Spec == Init /\ [][Next]_vars

(* ======================= the claims, one by one ======================== *)
StepsKey == "predict.applycal.steps"
Dirs == 0..(NDirs - 1)
\* the integer pixel run() computes for direction i
PixelOf(i) ==
    LET fp == wcs_world2pix(ras[i], decs[i]) IN <<IntOf(fp[1]), IntOf(fp[2])>>
\* the pixel nearest to the fractional pixel of direction i
NearestPixelOf(i) ==
    LET fp == wcs_world2pix(ras[i], decs[i]) IN <<Nearest(fp[1]), Nearest(fp[2])>>
\* the table written at the output path by this call
Written == fs[h5parmFilename]
FitsFinished == pc = "done" /\ method = "fits" /\ ret = "0"

\* C1: with method 'fits', once the loop over the directions has been entered
\* and the call has ended, every direction whose integer pixel is outside
\* [0, nx) x [0, ny) - x = nx and y = ny included - has value 1.0 and weight 0
\* at every (time, station, frequency), and the call did not end in an
\* IndexError.
C1_OutsideIsFlagged ==
    (pc = "done" /\ method = "fits" /\ ret \in {"0", "IndexError"}) =>
        /\ ret # "IndexError"
        /\ \A i \in Idx :
              ~InCube(PixelOf(i[3])[1], PixelOf(i[3])[2]) =>
                  vals[i] = 1 /\ weights[i] = 0

\* C2: after a 'fits' call that returned 0, for every direction whose pixel
\* (x, y) is inside the cube and every t, s, f: vals[t, s, d, f] is
\* data[t, f, s, y, x] and weights[t, s, d, f] is 1, in the arrays and in the
\* solution table written.
C2_InsideIsCubeValue ==
    FitsFinished =>
        \A i \in Idx :
            LET x == PixelOf(i[3])[1]
                y == PixelOf(i[3])[2]
                tab == Written.solsets[Len(Written.solsets)].soltabs[1]
            IN InCube(x, y) =>
                  /\ vals[i] = Data(fitsFilename, i[1], i[4], i[2], y, x)
                  /\ weights[i] = 1
                  /\ tab.vals[i] = Data(fitsFilename, i[1], i[4], i[2], y, x)
                  /\ tab.weights[i] = 1
C2_Witness ==
    /\ FitsFinished
    /\ \E i \in Dirs : InCube(PixelOf(i)[1], PixelOf(i)[2]) /\ PixelOf(i)[1] # PixelOf(i)[2]

\* C3: a 'fits' call whose cube has another number of stations than the
\* observation ends with status 1, and the file system and the parset are
\* what they were when the call started.
MismatchEnded ==
    pc = "done" /\ method = "fits" /\ fitsFilename \in CubeFiles /\ nstations # NStations
C3_MismatchNoEffect ==
    MismatchEnded => ret = "1" /\ fs = pre.fs /\ parset = pre.parset
C3_Witness ==
    MismatchEnded /\ ret = "1" /\ pre.fs[h5parmFilename].exists

\* C4: a call whose method is neither 'fits' nor 'wave' ends with a failure
\* status and leaves the file system and every parset key as they were.
C4_UnknownMethodFails ==
    (pc = "done" /\ method \notin {"fits", "wave"}) =>
        ret # "0" /\ fs = pre.fs /\ parset = pre.parset

\* C5: after a call that returned 0, predict.applycal.steps is ['tec'] if the
\* key was absent before the call and the previous list with 'tec' appended
\* otherwise; starting from an absent key, after k successful calls the list
\* is k times 'tec'.
C5_StepsAppended ==
    /\ (pc = "done" /\ ret = "0") =>
          /\ HasKey(parset, StepsKey)
          /\ parset[StepsKey] =
                IF HasKey(pre.parset, StepsKey)
                THEN pre.parset[StepsKey] \o <<"tec">>
                ELSE <<"tec">>
    /\ ~steps0 =>
          IF nsucc = 0 THEN ~HasKey(parset, StepsKey)
          ELSE HasKey(parset, StepsKey) /\ parset[StepsKey] = [k \in 1..nsucc |-> "tec"]
C5_Witness ==
    /\ pc = "done" /\ ret = "0"
    /\ HasKey(pre.parset, StepsKey)
    /\ pre.parset[StepsKey] = <<"beam", "tec">>
    /\ parset[StepsKey] = <<"beam", "tec", "tec">>

\* C6: after a 'fits' call that returned 0 the output path holds only this
\* call's content, whatever was there before: one solution set with the one
\* solution table 'tec000' holding this call's arrays, this call's antenna
\* and source rows, and one history entry per solution table, naming this
\* call's cube.
C6_OnlyNewContent ==
    FitsFinished =>
        /\ Written.exists
        /\ Len(Written.solsets) = 1
        /\ LET ss == Written.solsets[1] IN
              /\ Len(ss.soltabs) = 1
              /\ ss.soltabs[1].name = "tec000"
              /\ ss.soltabs[1].vals = vals
              /\ ss.soltabs[1].weights = weights
              /\ ss.soltabs[1].history = << <<"CREATE", h5parmFilename, fitsFilename>> >>
              /\ DOMAIN ss.antenna = 0..(NStations - 1)
              /\ \A i \in Dirs : ss.source[i] = <<SourceNames[i], <<ras[i], decs[i]>>>>
C6_Witness ==
    /\ FitsFinished
    /\ pre.fs[h5parmFilename].exists
    /\ pre.fs[h5parmFilename].solsets[1].soltabs[1].history[1][3] # fitsFilename

\* C7: in the wave method the list a pool map hands back holds at index i the
\* result for input direction i, whatever the order in which the workers
\* finish, and the map returns only when every task has finished.
WaveMapped == pc = "done" /\ method = "wave" /\ ret = "ZeroDivisionError"
C7_MapKeepsInputOrder ==
    /\ pc = "map2" =>
          \A i \in Dirs : altazcoord[i] = _getaltaz(<<ras[i], decs[i]>>)
    /\ WaveMapped =>
          /\ todo = {} /\ Len(order) = NDirs
          /\ \A i \in Dirs : alltec[i] = _gettec(_getaltaz(<<ras[i], decs[i]>>))
C7_Witness ==
    /\ WaveMapped
    /\ order[1] # 0
    /\ <<ras[0], decs[0]>> # <<ras[order[1]], decs[order[1]]>>

\* C8: a 'wave' call whose worker tasks all succeed returns 0, with a table
\* at h5parmFilename whose weights are all 1 and with the parset updated.
C8_WaveCompletes ==
    (pc = "done" /\ method = "wave" /\ ~taskerr) =>
        /\ ret = "0"
        /\ Written.exists
        /\ HasKey(parset, "predict.applycal.parmdb")

\* C9: with method 'fits', the integer pixel used for a direction is, on each
\* axis, the integer nearest to the fractional pixel of the projection.
C9_PixelIsNearest ==
    (method = "fits" /\ pc \in {"loop", "parset", "done"}) =>
        \A k \in 1..Len(pixels) : pixels[k] = NearestPixelOf(k - 1)

\* C10: when the operation is started through _run_parser, run() works with
\* the configured method, output path and cube file, and a step configured
\* with method 'fits' that ends successfully has written its table.
C10_ParserPassesOptions ==
    /\ (cfg.via /\ pc # "idle") =>
          /\ method = cfg.method
          /\ h5parmFilename = cfg.h5parmFilename
          /\ fitsFilename = cfg.fitsFilename
    /\ (cfg.via /\ cfg.method = "fits" /\ cfg.h5parmFilename \in Paths
          /\ pc = "done" /\ ret = "0") =>
          fs[cfg.h5parmFilename].exists

====
